---- MODULE Spec2Model ----
(***************************************************************************)
(* Playback, playlist traversal, elapsed time and volume handling of the   *)
(* browser audio player: the AudioPlayer component                         *)
(* (src/components/AudioPlayer.jsx), the App component (App.jsx) and the   *)
(* useAudioContext hook; and the analyser graph and render loop of         *)
(* AudioPlayer, App and Visualizer.  Each behaviour follows one mounted    *)
(* unit; the units do not share state.                                     *)
(*                                                                         *)
(* Track indexes are JavaScript indexes: 0..N-1, and -1 for "not found".   *)
(* Volumes are in percent (1.0 = 100).                                     *)
(***************************************************************************)
EXTENDS Integers, Sequences, FiniteSets, TLC

MaxN == 3          \* longest playlist
Duration == 2      \* length of the longest track, in playback ticks

NoTrack == 0       \* currentTrack = null
TrackIds == 1..MaxN

Units == {"AudioPlayer", "App", "useAudioContext", "renderLoop", "sample",
          "library", "FileUpload"}

\* the components that run a render loop over an analyser
LoopComponents == {"AudioPlayer", "App", "Visualizer"}

\* the AudioContexts one component may construct
MaxContexts == 2

\* the longest sample of frequency bins
MaxBins == 11

\* the most tracks kept in localStorage
MaxStored == 4

\* the most files of one upload, and the most uploads of one FileUpload
MaxFiles == 2
MaxUploads == 2

VARIABLES unit, ap, app, hk, viz, smp, lib, upl, last

vars == <<unit, ap, app, hk, viz, smp, lib, upl, last>>

----------------------------------------------------------------------------
(* Helpers shared by the components *)

\* Array.prototype.findIndex(track => track.id === id): 0-based, -1 if absent
FindIndex(pl, id) ==
    IF \E i \in 1..Len(pl) : pl[i] = id
    THEN (CHOOSE i \in 1..Len(pl) : pl[i] = id /\ \A j \in 1..(i-1) : pl[j] # id) - 1
    ELSE -1

\* playlist[i] for a JavaScript index i
At(pl, i) == pl[i + 1]

\* The playlists the parent hands to AudioPlayer: the first n entries of a
\* fixed order in which ids and indexes differ
PlaylistOf(n) == [i \in 1..n |-> (i % MaxN) + 1]

Min2(x, y) == IF x < y THEN x ELSE y
Max2(x, y) == IF x > y THEN x ELSE y

\* audio.duration of the source of track t: the tracks are not equally long
TrackDuration(t) == IF t = 1 THEN Duration - 1 ELSE Duration

\* HTMLMediaElement.play(): when the platform accepts, the element leaves the
\* paused state, and an element that has ended is first rewound to the start;
\* when the platform rejects (ok is false), the returned promise is rejected
\* and the element stays paused.  An element that is already playing keeps
\* playing and the promise is fulfilled.
ElementPlay(paused, time, duration, ok) ==
    IF ok \/ ~paused
    THEN [paused |-> FALSE, time |-> IF time = duration THEN 0 ELSE time,
          outcome |-> "ok"]
    ELSE [paused |-> TRUE, time |-> time, outcome |-> "rejected"]

\* The observation of the handler that ran last
NoObs == [op |-> "none", who |-> "none", idx |-> -1, n |-> 0, aidx |-> -1, an |-> 0,
          issued |-> NoTrack,
          preTrack |-> NoTrack, prePlaying |-> FALSE, prePaused |-> TRUE,
          preTime |-> 0, preMuted |-> FALSE, play |-> "none", req |-> 0,
          got |-> 0, threw |-> FALSE]

----------------------------------------------------------------------------
(* AudioPlayer *)

ApInit ==
    [currentTrack |-> NoTrack, playlist |-> <<>>, onTrackChange |-> TRUE,
     isPlaying |-> FALSE, repeatMode |-> "off", isShuffled |-> FALSE,
     volume |-> 100, isMuted |-> FALSE,
     currentTime |-> 0, duration |-> 0,
     audioPaused |-> TRUE, audioTime |-> 0, audioVolume |-> 100,
     timePending |-> FALSE, metaPending |-> FALSE,
     listener |-> [repeatMode |-> "off", isShuffled |-> FALSE, playlist |-> <<>>]]

\* the values a render's handlers close over
ApClosure(a) ==
    [repeatMode |-> a.repeatMode, isShuffled |-> a.isShuffled, playlist |-> a.playlist]

\* The parent's setCurrentTrack, followed by the render and its effects: the
\* <audio> element exists only while currentTrack is set, a new src reloads
\* it, and the event listeners are registered again with the new closure.
\* Loading queues a 'timeupdate' if it had to reset the position and, after
\* it, the 'loadedmetadata' of the new source (timePending, metaPending); the
\* currentTime and duration states are not touched.
ApSetTrack(a, t) ==
    IF t = a.currentTrack THEN a
    ELSE IF t = NoTrack
         THEN [a EXCEPT !.currentTrack = NoTrack, !.audioPaused = TRUE,
                        !.audioTime = 0, !.audioVolume = 100,
                        !.timePending = FALSE, !.metaPending = FALSE,
                        !.listener = ApInit.listener]
         ELSE [a EXCEPT !.currentTrack = t, !.audioPaused = TRUE, !.audioTime = 0,
                        !.audioVolume = IF a.currentTrack = NoTrack THEN 100 ELSE @,
                        !.timePending = (a.currentTrack # NoTrack /\ a.audioTime # 0),
                        !.metaPending = TRUE,
                        !.listener = ApClosure(a)]

\* handlePrevious falling back to the first track instead of the last
ApPreviousIndexToFirst(pl, cur) ==
    LET currentIndex == FindIndex(pl, cur)
    IN  IF currentIndex > 0 THEN currentIndex - 1 ELSE 0

ApPreviousIndex(pl, cur) ==
    LET currentIndex == FindIndex(pl, cur)
    IN  IF currentIndex > 0 THEN currentIndex - 1 ELSE Len(pl) - 1

\* the next index with a track that is not found counted as the first one
ApNextIndexFromFirst(pl, cur, shuffled, rand) ==
    LET currentIndex == Max2(0, FindIndex(pl, cur))
    IN  IF shuffled THEN rand
        ELSE IF currentIndex < Len(pl) - 1 THEN currentIndex + 1 ELSE 0

ApNextIndex(pl, cur, shuffled, rand) ==
    LET currentIndex == FindIndex(pl, cur)
    IN  IF shuffled THEN rand
        ELSE IF currentIndex < Len(pl) - 1 THEN currentIndex + 1 ELSE 0

\* handleNext without the check for a registered sink
ApHandleNextAnySink(c, cur, sink, rand) ==
    IF Len(c.playlist) = 0 THEN [kind |-> "noop", track |-> NoTrack]
    ELSE IF c.repeatMode = "one" THEN [kind |-> "restart", track |-> NoTrack]
    ELSE IF c.repeatMode = "off" /\ FindIndex(c.playlist, cur) = Len(c.playlist) - 1
         THEN [kind |-> "stop", track |-> NoTrack]
    ELSE [kind |-> "change",
          track |-> At(c.playlist, ApNextIndex(c.playlist, cur, c.isShuffled, rand))]

\* handleNext as a decision over the values its closure holds; rand is the
\* value of Math.floor(Math.random() * playlist.length)
ApHandleNext(c, cur, sink, rand) ==
    IF Len(c.playlist) = 0 \/ ~sink THEN [kind |-> "noop", track |-> NoTrack]
    ELSE IF c.repeatMode = "one" THEN [kind |-> "restart", track |-> NoTrack]
    ELSE IF c.repeatMode = "off" /\ FindIndex(c.playlist, cur) = Len(c.playlist) - 1
         THEN [kind |-> "stop", track |-> NoTrack]
    ELSE [kind |-> "change",
          track |-> At(c.playlist, ApNextIndex(c.playlist, cur, c.isShuffled, rand))]

\* handleTimeUpdate and handleLoadedMetadata, the listeners of 'timeupdate'
\* and 'loadedmetadata'
ApHandleTimeUpdate(a) ==
    [a EXCEPT !.currentTime = a.audioTime, !.timePending = FALSE]

ApHandleLoadedMetadata(a) ==
    [a EXCEPT !.duration = TrackDuration(a.currentTrack), !.metaPending = FALSE]

\* The element cannot play before its metadata is there, so the events queued
\* by a load have reached their listeners, in the order they were queued,
\* before the playback position moves.
ApDeliverLoadEvents(a) ==
    LET b == IF a.timePending THEN ApHandleTimeUpdate(a) ELSE a
    IN  IF b.metaPending THEN ApHandleLoadedMetadata(b) ELSE b

\* the observation of a handler that finds the component as a and closes over
\* c: idx and n are the current index and the playlist length the handler
\* computes, aidx and an those of the playlist prop at that moment
ApObs(op, c, a) ==
    [NoObs EXCEPT !.op = op, !.who = "AudioPlayer",
                  !.idx = FindIndex(c.playlist, a.currentTrack),
                  !.n = Len(c.playlist),
                  !.aidx = FindIndex(a.playlist, a.currentTrack),
                  !.an = Len(a.playlist), !.preTrack = a.currentTrack,
                  !.prePlaying = a.isPlaying, !.prePaused = a.audioPaused,
                  !.preTime = a.audioTime, !.preMuted = a.isMuted]

\* what a decision of handleNext does to the component; a is the component
\* as the handler finds it
ApApplyNext(a, d, ok, obs) ==
    CASE d.kind = "noop" ->
           /\ ap' = a
           /\ last' = obs
      [] d.kind = "restart" ->
           IF a.currentTrack = NoTrack
           THEN /\ ap' = a
                /\ last' = [obs EXCEPT !.threw = TRUE]
           ELSE LET e == ElementPlay(a.audioPaused, 0, TrackDuration(a.currentTrack), ok)
                IN  /\ ap' = [a EXCEPT !.audioPaused = e.paused, !.audioTime = e.time]
                    /\ last' = [obs EXCEPT !.play = e.outcome]
      [] d.kind = "stop" ->
           /\ ap' = [a EXCEPT !.isPlaying = FALSE]
           /\ last' = obs
      [] d.kind = "change" ->
           /\ ap' = ApSetTrack(a, d.track)
           /\ last' = [obs EXCEPT !.issued = d.track]

\* the Next button
ApNextClick ==
    /\ unit = "AudioPlayer"
    /\ Len(ap.playlist) > 0
    /\ \E rand \in 0..(Len(ap.playlist) - 1), ok \in BOOLEAN :
         ApApplyNext(ap, ApHandleNext(ApClosure(ap), ap.currentTrack,
                                      ap.onTrackChange, rand),
                     ok, ApObs("next", ApClosure(ap), ap))
    /\ UNCHANGED <<unit, upl, lib, smp, app, hk, viz>>

\* the Previous button
ApPreviousClick ==
    /\ unit = "AudioPlayer"
    /\ Len(ap.playlist) > 0
    /\ IF ~ap.onTrackChange
       THEN /\ ap' = ap
            /\ last' = ApObs("prev", ApClosure(ap), ap)
       ELSE LET t == At(ap.playlist, ApPreviousIndex(ap.playlist, ap.currentTrack))
            IN  /\ ap' = ApSetTrack(ap, t)
                /\ last' = [ApObs("prev", ApClosure(ap), ap) EXCEPT !.issued = t]
    /\ UNCHANGED <<unit, upl, lib, smp, app, hk, viz>>

\* the element reaches the end of the track: it pauses itself at the end
\* position and fires 'ended', whose listener is the handleNext of the render
\* in which the listeners were registered
ApEnded ==
    /\ unit = "AudioPlayer"
    /\ ap.currentTrack # NoTrack
    /\ ~ap.audioPaused
    /\ LET a == [ApDeliverLoadEvents(ap) EXCEPT
                   !.audioPaused = TRUE,
                   !.audioTime = TrackDuration(ap.currentTrack)]
           c == ap.listener
       IN  \E rand \in 0..(IF Len(c.playlist) = 0 THEN 0 ELSE Len(c.playlist) - 1),
              ok \in BOOLEAN :
             ApApplyNext(a, ApHandleNext(c, ap.currentTrack, ap.onTrackChange, rand),
                         ok, ApObs("ended", c, a))
    /\ UNCHANGED <<unit, upl, lib, smp, app, hk, viz>>

\* playback advances by one tick without reaching the end
ApTick ==
    /\ unit = "AudioPlayer"
    /\ ap.currentTrack # NoTrack
    /\ ~ap.audioPaused
    /\ ap.audioTime < TrackDuration(ap.currentTrack) - 1
    /\ ap' = [ApDeliverLoadEvents(ap) EXCEPT !.audioTime = @ + 1]
    /\ last' = NoObs
    /\ UNCHANGED <<unit, upl, lib, smp, app, hk, viz>>

\* the Play/Pause button
ApTogglePlay ==
    /\ unit = "AudioPlayer"
    /\ ap.currentTrack # NoTrack
    /\ IF ap.isPlaying
       THEN /\ ap' = [ap EXCEPT !.audioPaused = TRUE, !.isPlaying = FALSE]
            /\ last' = ApObs("toggle", ApClosure(ap), ap)
       ELSE \E ok \in BOOLEAN :
              LET e == ElementPlay(ap.audioPaused, ap.audioTime,
                                   TrackDuration(ap.currentTrack), ok)
              IN  /\ ap' = [ap EXCEPT !.audioPaused = e.paused, !.audioTime = e.time,
                                      !.isPlaying = IF e.outcome = "ok" THEN TRUE ELSE @]
                  /\ last' = [ApObs("toggle", ApClosure(ap), ap) EXCEPT
                                !.play = e.outcome]
    /\ UNCHANGED <<unit, upl, lib, smp, app, hk, viz>>

ApToggleShuffle ==
    /\ unit = "AudioPlayer"
    /\ ap' = [ap EXCEPT !.isShuffled = ~@]
    /\ last' = NoObs
    /\ UNCHANGED <<unit, upl, lib, smp, app, hk, viz>>

ApCycleRepeat ==
    /\ unit = "AudioPlayer"
    /\ ap' = [ap EXCEPT !.repeatMode =
                CASE @ = "off" -> "all" [] @ = "all" -> "one" [] @ = "one" -> "off"]
    /\ last' = NoObs
    /\ UNCHANGED <<unit, upl, lib, smp, app, hk, viz>>

\* the parent passes another playlist
ApParentSetPlaylist ==
    /\ unit = "AudioPlayer"
    /\ \E n \in 0..MaxN :
         /\ PlaylistOf(n) # ap.playlist
         /\ ap' = [ap EXCEPT !.playlist = PlaylistOf(n)]
    /\ last' = NoObs
    /\ UNCHANGED <<unit, upl, lib, smp, app, hk, viz>>

\* the parent selects a track itself, or clears the selection
ApParentSelectTrack ==
    /\ unit = "AudioPlayer"
    /\ \E t \in TrackIds \cup {NoTrack} :
         /\ t # ap.currentTrack
         /\ ap' = ApSetTrack(ap, t)
    /\ last' = NoObs
    /\ UNCHANGED <<unit, upl, lib, smp, app, hk, viz>>

----------------------------------------------------------------------------
(* App *)

AppInit ==
    [tracks |-> <<>>, currentTrack |-> NoTrack, isPlaying |-> FALSE,
     repeatMode |-> "none", isShuffling |-> FALSE, volume |-> 70,
     currentTime |-> 0, duration |-> 0,
     audioSrc |-> NoTrack, audioPaused |-> TRUE, audioTime |-> 0,
     audioVolume |-> 100, timePending |-> FALSE, metaPending |-> FALSE,
     stored |-> <<>>]

\* the effect on [tracks]: a non-empty list is written to localStorage under
\* 'mp3-player-tracks' (stored), an empty one is not
PersistTracks(a) ==
    IF Len(a.tracks) > 0 THEN [a EXCEPT !.stored = a.tracks] ELSE a

\* the result of a handler: the component, the track it selected (if any)
\* and the outcome of the play() it called (if any)
AppResult(a, issued, play) == [a |-> a, issued |-> issued, play |-> play]

AppTogglePlayPause(a, ok) ==
    IF a.currentTrack = NoTrack THEN AppResult(a, NoTrack, "none")
    ELSE IF a.isPlaying
         THEN AppResult([a EXCEPT !.audioPaused = TRUE, !.isPlaying = FALSE],
                        NoTrack, "none")
         ELSE LET e == ElementPlay(a.audioPaused, a.audioTime,
                                   TrackDuration(a.audioSrc), ok)
              IN  AppResult([a EXCEPT !.audioPaused = e.paused, !.audioTime = e.time,
                                      !.isPlaying = TRUE],
                            NoTrack, e.outcome)

AppPlayTrack(a, track, ok) ==
    IF a.currentTrack = track
    THEN [AppTogglePlayPause(a, ok) EXCEPT !.issued = track]
    ELSE AppResult([a EXCEPT !.currentTrack = track, !.currentTime = 0,
                             !.audioSrc = track,
                             !.audioPaused = TRUE, !.audioTime = 0,
                             !.timePending = (a.audioTime # 0),
                             !.metaPending = TRUE],
                   track, "none")

AppSkipIndex(tracks, cur, direction) ==
    LET currentIndex == FindIndex(tracks, cur)
    IN  IF direction = "next"
        THEN IF currentIndex + 1 >= Len(tracks) THEN 0 ELSE currentIndex + 1
        ELSE IF currentIndex - 1 < 0 THEN Len(tracks) - 1 ELSE currentIndex - 1

AppSkipTrack(a, direction, ok) ==
    IF Len(a.tracks) = 0 THEN AppResult(a, NoTrack, "none")
    ELSE AppPlayTrack(a, At(a.tracks, AppSkipIndex(a.tracks, a.currentTrack, direction)), ok)

\* the onEnded prop of the <audio> element
AppOnEnded(a, ok) ==
    IF a.repeatMode = "one"
    THEN LET e == ElementPlay(a.audioPaused, a.audioTime,
                                   TrackDuration(a.audioSrc), ok)
         IN  AppResult([a EXCEPT !.audioPaused = e.paused, !.audioTime = e.time],
                       NoTrack, e.outcome)
    ELSE IF a.repeatMode = "all" \/ Len(a.tracks) > 1
         THEN AppSkipTrack(a, "next", ok)
         ELSE AppResult([a EXCEPT !.isPlaying = FALSE], NoTrack, "none")

\* the observation of a handler that finds the component as a and returns r
\* handleTimeUpdate and handleLoadedMetadata of App
AppHandleTimeUpdate(a) ==
    [a EXCEPT !.currentTime = a.audioTime, !.timePending = FALSE]

AppHandleLoadedMetadata(a) ==
    [a EXCEPT !.duration = TrackDuration(a.audioSrc), !.metaPending = FALSE]

\* as ApDeliverLoadEvents, for the element of App
AppDeliverLoadEvents(a) ==
    LET b == IF a.timePending THEN AppHandleTimeUpdate(a) ELSE a
    IN  IF b.metaPending THEN AppHandleLoadedMetadata(b) ELSE b

AppObs(op, a, r) ==
    [NoObs EXCEPT !.op = op, !.who = "App",
                  !.idx = FindIndex(a.tracks, a.currentTrack),
                  !.n = Len(a.tracks),
                  !.aidx = FindIndex(a.tracks, a.currentTrack),
                  !.an = Len(a.tracks), !.preTrack = a.currentTrack,
                  !.prePlaying = a.isPlaying, !.prePaused = a.audioPaused,
                  !.preTime = a.audioTime, !.issued = r.issued, !.play = r.play]

\* FileReader.onload of one uploaded file
AppFileLoaded ==
    /\ unit = "App"
    /\ Len(app.tracks) < MaxN
    /\ \E id \in TrackIds :
         /\ \A i \in 1..Len(app.tracks) : app.tracks[i] # id
         /\ app' = PersistTracks([app EXCEPT !.tracks = Append(@, id)])
    /\ last' = NoObs
    /\ UNCHANGED <<unit, upl, lib, smp, ap, hk, viz>>

\* a click on a row of the track list
AppTrackClick ==
    /\ unit = "App"
    /\ \E i \in 1..Len(app.tracks), ok \in BOOLEAN :
         LET r == AppPlayTrack(app, app.tracks[i], ok)
         IN  /\ app' = r.a
             /\ last' = AppObs("select", app, r)
    /\ UNCHANGED <<unit, upl, lib, smp, ap, hk, viz>>

\* the Play/Pause button
AppToggleClick ==
    /\ unit = "App"
    /\ app.currentTrack # NoTrack
    /\ \E ok \in BOOLEAN :
         LET r == AppTogglePlayPause(app, ok)
         IN  /\ app' = r.a
             /\ last' = AppObs("toggle", app, r)
    /\ UNCHANGED <<unit, upl, lib, smp, ap, hk, viz>>

\* the Next and Previous buttons
AppSkipClick ==
    /\ unit = "App"
    /\ app.currentTrack # NoTrack
    /\ \E direction \in {"next", "prev"}, ok \in BOOLEAN :
         LET r == AppSkipTrack(app, direction, ok)
         IN  /\ app' = r.a
             /\ last' = AppObs(direction, app, r)
    /\ UNCHANGED <<unit, upl, lib, smp, ap, hk, viz>>

\* the element reaches the end of its source and fires 'ended'
AppEnded ==
    /\ unit = "App"
    /\ app.audioSrc # NoTrack
    /\ ~app.audioPaused
    /\ \E ok \in BOOLEAN :
         LET a == [AppDeliverLoadEvents(app) EXCEPT
                     !.audioPaused = TRUE,
                     !.audioTime = TrackDuration(app.audioSrc)]
             r == AppOnEnded(a, ok)
         IN  /\ app' = r.a
             /\ last' = AppObs("ended", a, r)
    /\ UNCHANGED <<unit, upl, lib, smp, ap, hk, viz>>

AppTick ==
    /\ unit = "App"
    /\ app.audioSrc # NoTrack
    /\ ~app.audioPaused
    /\ app.audioTime < TrackDuration(app.audioSrc) - 1
    /\ app' = [AppDeliverLoadEvents(app) EXCEPT !.audioTime = @ + 1]
    /\ last' = NoObs
    /\ UNCHANGED <<unit, upl, lib, smp, ap, hk, viz>>

AppToggleShuffle ==
    /\ unit = "App"
    /\ app' = [app EXCEPT !.isShuffling = ~@]
    /\ last' = NoObs
    /\ UNCHANGED <<unit, upl, lib, smp, ap, hk, viz>>

AppCycleRepeat ==
    /\ unit = "App"
    /\ app' = [app EXCEPT !.repeatMode =
                 CASE @ = "none" -> "one" [] @ = "one" -> "all" [] @ = "all" -> "none"]
    /\ last' = NoObs
    /\ UNCHANGED <<unit, upl, lib, smp, ap, hk, viz>>

\* removeTrack without the reset of the current track
RemoveTrackKeepsCurrent(a, trackId) ==
    [a EXCEPT !.tracks = SelectSeq(@, LAMBDA t : t # trackId)]

\* removeTrack of App: the element itself is not touched
RemoveTrack(a, trackId) ==
    [a EXCEPT !.tracks = SelectSeq(@, LAMBDA t : t # trackId),
              !.currentTrack = IF @ = trackId THEN NoTrack ELSE @,
              !.isPlaying = IF a.currentTrack = trackId THEN FALSE ELSE @]

\* the remove button of a row of the track list
AppRemoveTrack ==
    /\ unit = "App"
    /\ \E i \in 1..Len(app.tracks) :
         app' = PersistTracks(RemoveTrack(app, app.tracks[i]))
    /\ last' = NoObs
    /\ UNCHANGED <<unit, upl, lib, smp, ap, hk, viz>>

\* the page is loaded again: App is mounted anew and the effect on mount
\* reads the list stored under 'mp3-player-tracks'
AppReload ==
    /\ unit = "App"
    /\ app' = PersistTracks([AppInit EXCEPT !.tracks = app.stored,
                                            !.stored = app.stored])
    /\ last' = NoObs
    /\ UNCHANGED <<unit, upl, lib, smp, ap, hk, viz>>

----------------------------------------------------------------------------
(* Elapsed time and duration *)

\* the positions a click on the progress bar of AudioPlayer, or the seek
\* Slider of App, can report, in percent
SeekPercents == {0, 50, 100}

\* percent * duration, in whole ticks
SeekTarget(percent, duration) == (percent * duration) \div 100

\* audio.currentTime = newTime: the element keeps its position within its
\* own source
ElementSeek(newTime, duration) == Max2(0, Min2(duration, newTime))

\* a 'timeupdate' event reaches its listener
ApTimeUpdate ==
    /\ unit = "AudioPlayer"
    /\ ap.currentTrack # NoTrack
    /\ ap' = ApHandleTimeUpdate(ap)
    /\ last' = [ApObs("timeupdate", ApClosure(ap), ap) EXCEPT !.preTime = ap.currentTime]
    /\ UNCHANGED <<unit, upl, lib, smp, app, hk, viz>>

\* the 'loadedmetadata' of the current source reaches its listener, after
\* the 'timeupdate' queued before it
ApLoadedMetadata ==
    /\ unit = "AudioPlayer"
    /\ ap.currentTrack # NoTrack
    /\ ap.metaPending /\ ~ap.timePending
    /\ ap' = ApHandleLoadedMetadata(ap)
    /\ last' = [ApObs("loadedmetadata", ApClosure(ap), ap) EXCEPT
                  !.preTime = ap.currentTime]
    /\ UNCHANGED <<unit, upl, lib, smp, app, hk, viz>>

\* handleSeek: a click on the progress bar
ApHandleSeek ==
    /\ unit = "AudioPlayer"
    /\ ap.currentTrack # NoTrack
    /\ \E percent \in SeekPercents :
         LET newTime == SeekTarget(percent, ap.duration)
         IN  /\ ap' = [ap EXCEPT
                         !.audioTime = ElementSeek(newTime, TrackDuration(ap.currentTrack)),
                         !.currentTime = newTime]
             /\ last' = [ApObs("seek", ApClosure(ap), ap) EXCEPT
                           !.req = percent, !.preTime = ap.currentTime]
    /\ UNCHANGED <<unit, upl, lib, smp, app, hk, viz>>

\* onTimeUpdate of the <audio> of App
AppTimeUpdate ==
    /\ unit = "App"
    /\ app.audioSrc # NoTrack
    /\ app' = AppHandleTimeUpdate(app)
    /\ last' = [AppObs("timeupdate", app, AppResult(app, NoTrack, "none")) EXCEPT
                  !.preTime = app.currentTime]
    /\ UNCHANGED <<unit, upl, lib, smp, ap, hk, viz>>

\* onLoadedMetadata of the <audio> of App
AppLoadedMetadata ==
    /\ unit = "App"
    /\ app.audioSrc # NoTrack
    /\ app.metaPending /\ ~app.timePending
    /\ app' = AppHandleLoadedMetadata(app)
    /\ last' = [AppObs("loadedmetadata", app, AppResult(app, NoTrack, "none")) EXCEPT
                  !.preTime = app.currentTime]
    /\ UNCHANGED <<unit, upl, lib, smp, ap, hk, viz>>

\* handleSeek of App: the seek Slider reports value[0] in 0..100
AppHandleSeek ==
    /\ unit = "App"
    /\ \E percent \in SeekPercents :
         LET newTime == SeekTarget(percent, app.duration)
         IN  /\ app' = [app EXCEPT
                          !.audioTime = IF app.audioSrc = NoTrack THEN @
                                        ELSE ElementSeek(newTime, TrackDuration(app.audioSrc)),
                          !.currentTime = newTime]
             /\ last' = [AppObs("seek", app, AppResult(app, NoTrack, "none")) EXCEPT
                           !.req = percent, !.preTime = app.currentTime]
    /\ UNCHANGED <<unit, upl, lib, smp, ap, hk, viz>>

----------------------------------------------------------------------------
(* Volume and mute *)

\* the positions a click on AudioPlayer's volume bar can report, in percent
\* of the bar's width
VolumeRequests == {-20, 0, 40, 100, 140}

\* the values the Slider of App reports (min 0, max 100)
SliderValues == {0, 40, 70, 100}

\* the clamp without its upper limit
ApClampVolumeNoUpper(percent) == Max2(0, percent)

\* Math.max(0, Math.min(1, percent))
ApClampVolume(percent) == Max2(0, Min2(100, percent))

\* a click on the volume bar of AudioPlayer
ApHandleVolumeChange ==
    /\ unit = "AudioPlayer"
    /\ \E percent \in VolumeRequests :
         LET newVolume == ApClampVolume(percent)
         IN  /\ ap' = [ap EXCEPT !.volume = newVolume,
                                 !.audioVolume = IF ap.currentTrack # NoTrack
                                                 THEN newVolume ELSE @,
                                 !.isMuted = (newVolume = 0)]
             /\ last' = [ApObs("volume", ApClosure(ap), ap) EXCEPT !.req = percent]
    /\ UNCHANGED <<unit, upl, lib, smp, app, hk, viz>>

\* the mute button of AudioPlayer
ApToggleMute ==
    /\ unit = "AudioPlayer"
    /\ IF ap.currentTrack = NoTrack
       THEN ap' = ap
       ELSE IF ap.isMuted
            THEN ap' = [ap EXCEPT !.audioVolume = ap.volume, !.isMuted = FALSE]
            ELSE ap' = [ap EXCEPT !.audioVolume = 0, !.isMuted = TRUE]
    /\ last' = ApObs("mute", ApClosure(ap), ap)
    /\ UNCHANGED <<unit, upl, lib, smp, app, hk, viz>>

\* the volume Slider of App
AppHandleVolumeChange ==
    /\ unit = "App"
    /\ \E value \in SliderValues :
         /\ app' = [app EXCEPT !.volume = value, !.audioVolume = value]
         /\ last' = [AppObs("volume", app, AppResult(app, NoTrack, "none"))
                       EXCEPT !.req = value]
    /\ UNCHANGED <<unit, upl, lib, smp, ap, hk, viz>>

----------------------------------------------------------------------------
(* useAudioContext *)

\* State and refs of the hook.  audioContext is "null" or "open"; source is
\* sourceRef.current, gainNode is gainNodeRef.current.  contexts counts the
\* AudioContexts constructed so far, sources the media-element sources
\* connected into the chain, created the media-element sources made for the
\* element so far, closes the calls of AudioContext.close().
\* closed: closeContext has run and no context was set since.  The other
\* fields record the last call: what it returned, whether an exception left
\* it, its inputs and the state it started from.
HkInit ==
    [audioContext |-> "null", analyser |-> FALSE, isContextReady |-> FALSE,
     error |-> FALSE, gainNode |-> FALSE, gainValue |-> 100,
     source |-> FALSE, contexts |-> 0, sources |-> 0, created |-> 0,
     closes |-> 0, closed |-> FALSE,
     ret |-> "none", threw |-> FALSE, engine |-> FALSE, element |-> FALSE,
     preClosed |-> FALSE,
     pre |-> <<"null", FALSE, FALSE, FALSE, FALSE, FALSE, 0, 0, 0>>]

\* what a call can change
HkState(h) ==
    <<h.audioContext, h.analyser, h.isContextReady, h.error, h.gainNode,
      h.source, h.contexts, h.sources, h.closes>>

\* a call starts
HkCall(h, engineAvailable, audioElement) ==
    [h EXCEPT !.ret = "none", !.threw = FALSE, !.engine = engineAvailable,
              !.element = audioElement, !.preClosed = h.closed,
              !.pre = HkState(h)]

\* createAudioContext(audioElement) of audioUtils: the context, analyser and
\* media-element source are built inside one try block, and any failure
\* (no engine, no element to take the source from) gives null
CreateAudioContext(hasElement, engineAvailable) ==
    IF engineAvailable /\ hasElement THEN "graph" ELSE "null"

\* the AudioContexts a call of createAudioContext constructs: new
\* AudioContext() is its first statement, before the source is asked for
ContextsConstructed(engineAvailable) == IF engineAvailable THEN 1 ELSE 0

\* Math.max(0, Math.min(1, volume))
HkClampVolume(volume) == Max2(0, Min2(100, volume))

\* initializeContext: createAudioContext is called without an element; a null
\* result is thrown as an error, and the object it would return otherwise is
\* not an AudioContext (it has no createAnalyser), so the try block is left
\* through its catch either way
InitializeContext(h, engineAvailable) ==
    LET h0 == [h EXCEPT !.error = FALSE]
    IN  IF h.audioContext = "open"
        THEN [h0 EXCEPT !.ret = "context"]
        ELSE LET context == CreateAudioContext(FALSE, engineAvailable)
                 h1 == [h0 EXCEPT !.contexts = @ + ContextsConstructed(engineAvailable)]
             IN  IF context = "null"
                 THEN [h1 EXCEPT !.error = TRUE, !.isContextReady = FALSE,
                                 !.ret = "null"]
                 ELSE [h1 EXCEPT !.error = TRUE, !.isContextReady = FALSE,
                                 !.ret = "null"]

\* connectAudioElement(audioElement): analyser is the state of the render the
\* callback was made in, gainNodeRef.current is read after initializeContext
ConnectAudioElement(h, audioElement, engineAvailable) ==
    IF ~audioElement THEN [h EXCEPT !.ret = "null"]
    ELSE LET h1 == IF h.audioContext = "open" THEN [h EXCEPT !.ret = "context"]
                   ELSE InitializeContext(h, engineAvailable)
         IN  IF h1.ret = "null" \/ ~h.analyser \/ ~h1.gainNode
             THEN [h1 EXCEPT !.error = TRUE, !.ret = "null"]
             ELSE [h1 EXCEPT !.sources = (IF h1.source THEN @ - 1 ELSE @) + 1,
                             !.created = @ + 1, !.source = TRUE, !.ret = "source"]

\* closeContext without the null test on audioContext: reading .state of
\* null throws outside the inner try
CloseContextNoNullCheck(h) ==
    LET h1 == [h EXCEPT !.source = FALSE, !.sources = 0]
    IN  IF h.audioContext = "null"
        THEN [h1 EXCEPT !.threw = TRUE]
        ELSE [h1 EXCEPT !.closes = @ + 1,
                        !.audioContext = "null", !.analyser = FALSE,
                        !.isContextReady = FALSE, !.gainNode = FALSE,
                        !.closed = TRUE]

\* closeContext
CloseContext(h) ==
    LET h1 == [h EXCEPT !.source = FALSE, !.sources = 0]
    IN  [h1 EXCEPT !.closes = IF h.audioContext = "open" THEN @ + 1 ELSE @,
                   !.audioContext = "null", !.analyser = FALSE,
                   !.isContextReady = FALSE, !.gainNode = FALSE,
                   !.closed = TRUE]

HkInitializeContext ==
    /\ unit = "useAudioContext"
    /\ hk.contexts < MaxContexts
    /\ \E engineAvailable \in BOOLEAN :
         hk' = InitializeContext(HkCall(hk, engineAvailable, FALSE), engineAvailable)
    /\ last' = [NoObs EXCEPT !.op = "initializeContext", !.who = "useAudioContext"]
    /\ UNCHANGED <<unit, upl, lib, smp, ap, app, viz>>

HkConnectAudioElement ==
    /\ unit = "useAudioContext"
    /\ hk.contexts < MaxContexts
    /\ \E audioElement \in BOOLEAN, engineAvailable \in BOOLEAN :
         hk' = ConnectAudioElement(HkCall(hk, engineAvailable, audioElement),
                                   audioElement, engineAvailable)
    /\ last' = [NoObs EXCEPT !.op = "connectAudioElement", !.who = "useAudioContext"]
    /\ UNCHANGED <<unit, upl, lib, smp, ap, app, viz>>

HkCloseContext ==
    /\ unit = "useAudioContext"
    /\ hk' = CloseContext(HkCall(hk, FALSE, FALSE))
    /\ last' = [NoObs EXCEPT !.op = "closeContext", !.who = "useAudioContext"]
    /\ UNCHANGED <<unit, upl, lib, smp, ap, app, viz>>

\* setVolume(volume)
HkSetVolume ==
    /\ unit = "useAudioContext"
    /\ \E volume \in VolumeRequests :
         /\ hk' = IF hk.gainNode
                  THEN [hk EXCEPT !.gainValue = HkClampVolume(volume)]
                  ELSE hk
         /\ last' = [NoObs EXCEPT !.op = "volume", !.who = "useAudioContext",
                                  !.req = volume]
    /\ UNCHANGED <<unit, upl, lib, smp, ap, app, viz>>

\* getVolume(): gainNodeRef.current?.gain.value || 1, in percent
GetVolume(h) == IF h.gainNode /\ h.gainValue # 0 THEN h.gainValue ELSE 100

\* getVolume() called after a setVolume(volume)
HkGetVolume ==
    /\ unit = "useAudioContext"
    /\ last.who = "useAudioContext" /\ last.op = "volume"
    /\ last' = [last EXCEPT !.op = "getVolume", !.got = GetVolume(hk)]
    /\ UNCHANGED <<unit, upl, lib, smp, ap, app, hk, viz>>

----------------------------------------------------------------------------
(* The analyser graph and the render loop of AudioPlayer, App and Visualizer *)

\* the drawings of Visualizer
VisualizerTypes == {"bars", "wave", "circular"}

\* what constructing the graph can meet: everything works, the AudioContext
\* constructor throws, or createMediaElementSource throws
EngineOutcomes == {"ok", "noContext", "noSource"}

\* The refs and the state the loop reads.  element: the <audio> element is
\* there (AudioPlayer renders it with a current track, App always, Visualizer
\* gets it as the audioElement prop); frame: a requestAnimationFrame callback
\* is pending; contexts: the AudioContexts constructed so far; sources: the
\* source nodes created for the element so far.
\* suspended: the state of the AudioContext of AudioPlayer is 'suspended'.
\* mounted: the component has not been unmounted; contextClosed: close() was
\* called on its AudioContext.  The other
\* fields record the last step: op, whether it drew a frame, whether an
\* exception left it, and the state it started from.
VizInit(c) ==
    [comp |-> c, element |-> (c = "App"), isPlaying |-> FALSE,
     audioContext |-> FALSE, analyser |-> FALSE, dataArray |-> FALSE,
     source |-> FALSE, isInitialized |-> FALSE, visualizerType |-> "bars",
     frame |-> FALSE, contexts |-> 0, sources |-> 0, suspended |-> FALSE,
     mounted |-> TRUE, contextClosed |-> FALSE,
     op |-> "none", drew |-> FALSE, threw |-> FALSE,
     prePlaying |-> FALSE, preReady |-> FALSE, preFrame |-> FALSE,
     preGraph |-> <<FALSE, FALSE, FALSE, FALSE, 0>>]

\* what the loop needs of the graph: the analysis node and the sample buffer
GraphReady(v) == v.analyser /\ v.dataArray

\* the nodes of the graph and the number of contexts made for it
GraphOf(v) == <<v.audioContext, v.analyser, v.dataArray, v.source, v.contexts>>

\* the step starts: nothing drawn or thrown yet
VizStep(v, op) ==
    [v EXCEPT !.op = op, !.drew = FALSE, !.threw = FALSE,
              !.prePlaying = v.isPlaying, !.preReady = GraphReady(v),
              !.preFrame = v.frame, !.preGraph = GraphOf(v)]

\* cancelAnimationFrame(animationRef.current): the pending callback, if any,
\* will not run
CancelAnimationFrameLeavesPending(v) == v

CancelAnimationFrame(v) == [v EXCEPT !.frame = FALSE]

\* the graph effect of AudioPlayer without the test of audioContextRef.current
ApInitGraphUnguarded(v, outcome) ==
    IF ~v.element THEN v
    ELSE CASE outcome = "noContext" -> v
           [] outcome = "noSource" ->
                [v EXCEPT !.audioContext = TRUE, !.analyser = TRUE,
                          !.dataArray = TRUE, !.contexts = @ + 1]
           [] outcome = "ok" ->
                [v EXCEPT !.audioContext = TRUE, !.analyser = TRUE,
                          !.dataArray = TRUE, !.source = TRUE, !.sources = @ + 1,
                          !.contexts = @ + 1]

\* AudioPlayer, the effect on [currentTrack]: the refs are assigned one by
\* one, so a throw of createMediaElementSource leaves the context, the
\* analyser and the buffer in place
ApInitGraph(v, outcome) ==
    IF ~v.element \/ v.audioContext THEN v
    ELSE CASE outcome = "noContext" -> v
           [] outcome = "noSource" ->
                [v EXCEPT !.audioContext = TRUE, !.analyser = TRUE,
                          !.dataArray = TRUE, !.contexts = @ + 1]
           [] outcome = "ok" ->
                [v EXCEPT !.audioContext = TRUE, !.analyser = TRUE,
                          !.dataArray = TRUE, !.source = TRUE, !.sources = @ + 1,
                          !.contexts = @ + 1]

\* App.initializeAudioContext: the buffer is allocated last
AppInitializeAudioContext(v, outcome) ==
    IF v.audioContext \/ ~v.element THEN v
    ELSE CASE outcome = "noContext" -> v
           [] outcome = "noSource" ->
                [v EXCEPT !.audioContext = TRUE, !.analyser = TRUE,
                          !.contexts = @ + 1]
           [] outcome = "ok" ->
                [v EXCEPT !.audioContext = TRUE, !.analyser = TRUE,
                          !.source = TRUE, !.sources = @ + 1, !.dataArray = TRUE,
                          !.contexts = @ + 1]

\* Visualizer.initializeAudioContext without the test of isInitialized
VisInitializeAudioContextUnguarded(v, outcome) ==
    IF ~v.element THEN v
    ELSE CASE outcome = "noContext" -> v
           [] outcome = "noSource" -> [v EXCEPT !.contexts = @ + 1]
           [] outcome = "ok" ->
                [v EXCEPT !.audioContext = TRUE, !.analyser = TRUE,
                          !.source = TRUE, !.sources = @ + 1, !.dataArray = TRUE,
                          !.isInitialized = TRUE, !.contexts = @ + 1]

\* Visualizer.initializeAudioContext: the refs are assigned after the whole
\* graph is built, together with setIsInitialized(true)
VisInitializeAudioContext(v, outcome) ==
    IF ~v.element \/ v.isInitialized THEN v
    ELSE CASE outcome = "noContext" -> v
           [] outcome = "noSource" -> [v EXCEPT !.contexts = @ + 1]
           [] outcome = "ok" ->
                [v EXCEPT !.audioContext = TRUE, !.analyser = TRUE,
                          !.source = TRUE, !.sources = @ + 1, !.dataArray = TRUE,
                          !.isInitialized = TRUE, !.contexts = @ + 1]

\* drawVisualizer of AudioPlayer and animate of Visualizer: return without
\* the graph, else draw and request the next frame; nothing catches a throw
\* of the drawing, which then leaves before requestAnimationFrame
DrawVisualizer(v, throws) ==
    IF ~GraphReady(v) THEN v
    ELSE IF throws THEN [v EXCEPT !.threw = TRUE]
    ELSE [v EXCEPT !.drew = TRUE, !.frame = TRUE]

Animate(v, throws) == DrawVisualizer(v, throws)

\* updateVisualizerData of App, in the closure of a render with isPlaying
UpdateVisualizerData(v, isPlaying) ==
    IF GraphReady(v) /\ isPlaying
    THEN [v EXCEPT !.drew = TRUE, !.frame = TRUE]
    ELSE v

\* AudioPlayer, the effect on [isPlaying], after the cleanup of its last run
ApStartStop(v, throws) ==
    LET c == CancelAnimationFrame(v)
    IN  IF c.isPlaying THEN DrawVisualizer(c, throws) ELSE CancelAnimationFrame(c)

\* App, the effect on [isPlaying]
AppStartStop(v, outcome) ==
    LET c == CancelAnimationFrame(v)
    IN  IF c.isPlaying
        THEN UpdateVisualizerData(AppInitializeAudioContext(c, outcome), TRUE)
        ELSE CancelAnimationFrame(c)

\* Visualizer, the effect on [isPlaying, isInitialized, animate]
VisStartStop(v, throws) ==
    LET c == CancelAnimationFrame(v)
    IN  IF c.isPlaying /\ c.isInitialized
        THEN Animate(c, throws)
        ELSE CancelAnimationFrame(c)

\* AudioPlayer gets a (different) current track: only the graph effect runs
LoopApTrack ==
    /\ unit = "renderLoop" /\ viz.comp = "AudioPlayer" /\ viz.mounted
    /\ viz.contexts < MaxContexts
    /\ \E outcome \in EngineOutcomes, suspended \in BOOLEAN :
         LET v == ApInitGraph([VizStep(viz, "track") EXCEPT !.element = TRUE], outcome)
         IN  viz' = IF v.contexts > viz.contexts
                    THEN [v EXCEPT !.suspended = suspended] ELSE v
    /\ UNCHANGED <<unit, upl, lib, smp, ap, app, hk, last>>

\* togglePlay of AudioPlayer, as far as the graph and the loop go: a
\* suspended context is resumed first, inside the try block of the handler,
\* so a rejected resume() leaves through the catch before pause() or play()
ApTogglePlayLoop(v, resumeOk, throws) ==
    IF v.audioContext /\ v.suspended /\ ~resumeOk
    THEN VizStep(v, "blocked")
    ELSE ApStartStop([VizStep(v, IF v.isPlaying THEN "pause" ELSE "play")
                        EXCEPT !.isPlaying = ~v.isPlaying, !.suspended = FALSE],
                     throws)

\* the Play/Pause button of AudioPlayer
LoopApPlaying ==
    /\ unit = "renderLoop" /\ viz.comp = "AudioPlayer" /\ viz.mounted
    /\ viz.element
    /\ \E resumeOk \in BOOLEAN, throws \in BOOLEAN :
         viz' = ApTogglePlayLoop(viz, resumeOk, throws)
    /\ UNCHANGED <<unit, upl, lib, smp, ap, app, hk, last>>

\* the browser runs the pending frame callback of AudioPlayer
LoopApFrame ==
    /\ unit = "renderLoop" /\ viz.comp = "AudioPlayer" /\ viz.mounted
    /\ viz.frame
    /\ \E throws \in BOOLEAN :
         viz' = DrawVisualizer([VizStep(viz, "frame") EXCEPT !.frame = FALSE], throws)
    /\ UNCHANGED <<unit, upl, lib, smp, ap, app, hk, last>>

\* setIsPlaying of App: togglePlayPause, or onEnded
LoopAppPlaying ==
    /\ unit = "renderLoop" /\ viz.comp = "App" /\ viz.mounted
    /\ \E outcome \in EngineOutcomes :
         viz' = AppStartStop([VizStep(viz, IF viz.isPlaying THEN "pause" ELSE "play")
                                EXCEPT !.isPlaying = ~viz.isPlaying], outcome)
    /\ UNCHANGED <<unit, upl, lib, smp, ap, app, hk, last>>

\* the browser runs the pending frame callback of App
LoopAppFrame ==
    /\ unit = "renderLoop" /\ viz.comp = "App" /\ viz.mounted
    /\ viz.frame
    /\ viz' = UpdateVisualizerData([VizStep(viz, "frame") EXCEPT !.frame = FALSE], TRUE)
    /\ UNCHANGED <<unit, upl, lib, smp, ap, app, hk, last>>

\* the parent hands Visualizer an audio element: the init effect runs, and
\* the start/stop effect after it if isInitialized changed
LoopVisElement ==
    /\ unit = "renderLoop" /\ viz.comp = "Visualizer" /\ viz.mounted
    /\ viz.contexts < MaxContexts
    /\ \E outcome \in EngineOutcomes, throws \in BOOLEAN :
         LET v == VisInitializeAudioContext(
                      [VizStep(viz, "element") EXCEPT !.element = TRUE], outcome)
         IN  viz' = IF v.isInitialized # viz.isInitialized
                    THEN VisStartStop(v, throws) ELSE v
    /\ UNCHANGED <<unit, upl, lib, smp, ap, app, hk, last>>

\* the isPlaying prop of Visualizer changes
LoopVisPlaying ==
    /\ unit = "renderLoop" /\ viz.comp = "Visualizer" /\ viz.mounted
    /\ \E throws \in BOOLEAN :
         viz' = VisStartStop([VizStep(viz, IF viz.isPlaying THEN "pause" ELSE "play")
                                EXCEPT !.isPlaying = ~viz.isPlaying], throws)
    /\ UNCHANGED <<unit, upl, lib, smp, ap, app, hk, last>>

\* setVisualizerType: animate is a new callback, the start/stop effect reruns
LoopVisType ==
    /\ unit = "renderLoop" /\ viz.comp = "Visualizer" /\ viz.mounted
    /\ \E type \in VisualizerTypes \ {viz.visualizerType}, throws \in BOOLEAN :
         viz' = VisStartStop([VizStep(viz, "type") EXCEPT !.visualizerType = type],
                             throws)
    /\ UNCHANGED <<unit, upl, lib, smp, ap, app, hk, last>>

\* AudioPlayer is unmounted, its <audio> element with it: the cleanup of the
\* start/stop effect runs; the graph effect has no cleanup
LoopApUnmount ==
    /\ unit = "renderLoop" /\ viz.comp = "AudioPlayer" /\ viz.mounted
    /\ viz' = CancelAnimationFrame([VizStep(viz, "unmount") EXCEPT
                                      !.mounted = FALSE, !.element = FALSE])
    /\ UNCHANGED <<unit, upl, lib, smp, ap, app, hk, last>>

\* App is unmounted, its <audio> element with it: the cleanup of the
\* start/stop effect runs
LoopAppUnmount ==
    /\ unit = "renderLoop" /\ viz.comp = "App" /\ viz.mounted
    /\ viz' = CancelAnimationFrame([VizStep(viz, "unmount") EXCEPT
                                      !.mounted = FALSE, !.element = FALSE])
    /\ UNCHANGED <<unit, upl, lib, smp, ap, app, hk, last>>

\* Visualizer is unmounted: the cleanups of the start/stop effect and of the
\* last effect run, which cancels the frame and closes the context
LoopVisUnmount ==
    /\ unit = "renderLoop" /\ viz.comp = "Visualizer" /\ viz.mounted
    /\ viz' = [CancelAnimationFrame(VizStep(viz, "unmount")) EXCEPT
                 !.mounted = FALSE,
                 !.contextClosed = viz.audioContext]
    /\ UNCHANGED <<unit, upl, lib, smp, ap, app, hk, last>>

\* the browser runs the pending frame callback of Visualizer
LoopVisFrame ==
    /\ unit = "renderLoop" /\ viz.comp = "Visualizer" /\ viz.mounted
    /\ viz.frame
    /\ \E throws \in BOOLEAN :
         viz' = Animate([VizStep(viz, "frame") EXCEPT !.frame = FALSE], throws)
    /\ UNCHANGED <<unit, upl, lib, smp, ap, app, hk, last>>

----------------------------------------------------------------------------
(* Samples of the analyser: getFrequencyData and getFrequencyBins *)

\* analyser.frequencyBinCount of the hook: half of its fftSize of 2048
FrequencyBinCount == 1024

\* the byte values a bin takes here: the least and the greatest
Bytes == {0, 255}

\* the contents of an analyser, or of the frequencyData state
Samples == UNION {[1..n -> Bytes] : n \in 0..MaxBins}

\* data: the bins at hand; op, analyzer, out: the last call, whether it was
\* given an analyser, and what it returned
SmpInit(data) ==
    [data |-> data, op |-> "none", analyzer |-> FALSE, out |-> <<>>]

\* getFrequencyData(analyzer): data are the bins the analyser would write
GetFrequencyData(analyzer, data) ==
    IF ~analyzer THEN <<>> ELSE data

RECURSIVE SumBins(_, _, _)
\* the for loops of getFrequencyBins: frequencyData[from] + ... +
\* frequencyData[to - 1], JavaScript indexes
SumBins(data, from, to) ==
    IF from >= to THEN 0 ELSE data[from + 1] + SumBins(data, from + 1, to)

\* sum / count / 255 as a fraction <<numerator, denominator>>; 0 / 0 is NaN
Mean255(sum, count) ==
    IF count = 0 THEN "NaN" ELSE <<sum, count * 255>>

\* Math.floor(dataLength * 0.1) and Math.floor(dataLength * 0.4)
BassEnd(dataLength) == dataLength \div 10
MidEnd(dataLength) == (4 * dataLength) \div 10

\* getFrequencyBins()
GetFrequencyBins(frequencyData) ==
    IF Len(frequencyData) = 0
    THEN [bass |-> <<0, 1>>, mid |-> <<0, 1>>, treble |-> <<0, 1>>]
    ELSE LET dataLength == Len(frequencyData)
             bassEnd == BassEnd(dataLength)
             midEnd == MidEnd(dataLength)
         IN  [bass |-> Mean255(SumBins(frequencyData, 0, bassEnd), bassEnd),
              mid |-> Mean255(SumBins(frequencyData, bassEnd, midEnd),
                              midEnd - bassEnd),
              treble |-> Mean255(SumBins(frequencyData, midEnd, dataLength),
                                 dataLength - midEnd)]

SmpGetFrequencyData ==
    /\ unit = "sample"
    /\ \E analyzer \in BOOLEAN :
         smp' = [smp EXCEPT !.op = "getFrequencyData", !.analyzer = analyzer,
                            !.out = GetFrequencyData(analyzer, smp.data)]
    /\ UNCHANGED <<unit, upl, lib, ap, app, hk, viz, last>>

SmpGetFrequencyBins ==
    /\ unit = "sample"
    /\ smp' = [smp EXCEPT !.op = "getFrequencyBins", !.analyzer = FALSE,
                          !.out = GetFrequencyBins(smp.data)]
    /\ UNCHANGED <<unit, upl, lib, ap, app, hk, viz, last>>

----------------------------------------------------------------------------
(* The track library in localStorage: saveTracks, updateTrack, deleteTrack, *)
(* clearAllTracks of audioUtils                                             *)

\* tracks: the ids of the stored tracks, in order; op, ret: the last call
\* and what it returned
LibInit == [tracks |-> <<>>, op |-> "none", ret |-> TRUE]

\* the batches handed to saveTracks: up to two tracks with different ids
Batches ==
    {<<>>} \cup {<<a>> : a \in TrackIds}
           \cup {<<a, b>> : <<a, b>> \in {p \in TrackIds \X TrackIds : p[1] # p[2]}}

\* saveTracks(tracks): [...existingTracks, ...tracks]
SaveTracks(existingTracks, tracks) == existingTracks \o tracks

\* updateTrack(trackId, updates): the first track with the id becomes
\* {...track, ...updates}; id is the id among the updates, NoTrack for none
UpdateTrack(tracks, trackId, id) ==
    LET trackIndex == FindIndex(tracks, trackId)
    IN  IF trackIndex = -1 \/ id = NoTrack THEN tracks
        ELSE [tracks EXCEPT ![trackIndex + 1] = id]

\* deleteTrack(trackId): tracks.filter(track => track.id !== trackId)
DeleteTrack(tracks, trackId) == SelectSeq(tracks, LAMBDA t : t # trackId)

\* a write to localStorage that throws is caught: false, nothing stored
LibSaveTracks ==
    /\ unit = "library"
    /\ \E tracks \in Batches, storageOk \in BOOLEAN :
         /\ Len(lib.tracks) + Len(tracks) <= MaxStored
         /\ lib' = [tracks |-> IF storageOk THEN SaveTracks(lib.tracks, tracks)
                               ELSE lib.tracks,
                    op |-> "saveTracks", ret |-> storageOk]
    /\ UNCHANGED <<unit, upl, ap, app, hk, viz, smp, last>>

LibUpdateTrack ==
    /\ unit = "library"
    /\ \E trackId \in TrackIds, id \in TrackIds \cup {NoTrack} :
         lib' = [tracks |-> UpdateTrack(lib.tracks, trackId, id),
                 op |-> "updateTrack",
                 ret |-> FindIndex(lib.tracks, trackId) # -1]
    /\ UNCHANGED <<unit, upl, ap, app, hk, viz, smp, last>>

LibDeleteTrack ==
    /\ unit = "library"
    /\ \E trackId \in TrackIds :
         lib' = [tracks |-> DeleteTrack(lib.tracks, trackId),
                 op |-> "deleteTrack", ret |-> TRUE]
    /\ UNCHANGED <<unit, upl, ap, app, hk, viz, smp, last>>

LibClearAllTracks ==
    /\ unit = "library"
    /\ lib' = [tracks |-> <<>>, op |-> "clearAllTracks", ret |-> TRUE]
    /\ UNCHANGED <<unit, upl, ap, app, hk, viz, smp, last>>

----------------------------------------------------------------------------
(* FileUpload and processAudioFiles *)

\* A file as far as its processing goes: valid is isValidAudioFile(file),
\* loads is whether an Audio element fires 'loadedmetadata' (rather than
\* 'error') for it, reads is whether FileReader reads it.
File == [valid : BOOLEAN, loads : BOOLEAN, reads : BOOLEAN]

\* the file lists of a drop or of the file input
FileLists == UNION {[1..n -> File] : n \in 0..MaxFiles}

\* url: null
NullUrl == <<>>

\* URL.createObjectURL for file i of upload k
CreateObjectURL(k, i) == <<k, i>>

\* extractMetadata(file): the object URL is revoked in both listeners, and
\* the 'loadedmetadata' listener puts it into the metadata
ExtractMetadata(file, url, live) ==
    LET created == live \cup {url}
    IN  [url |-> IF file.loads THEN url ELSE NullUrl,
         live |-> created \ {url}]

\* processAudioFiles(files), from file i on: tracks are the tracks pushed so
\* far, live the object URLs that are not revoked
RECURSIVE ProcessFrom(_, _, _, _, _)
ProcessFrom(files, k, i, tracks, live) ==
    IF i > Len(files) THEN [tracks |-> tracks, live |-> live]
    ELSE IF ~files[i].valid THEN ProcessFrom(files, k, i + 1, tracks, live)
    ELSE LET metadata == ExtractMetadata(files[i], CreateObjectURL(k, i), live)
         IN  IF ~files[i].reads
             THEN ProcessFrom(files, k, i + 1, tracks, metadata.live)
             ELSE ProcessFrom(files, k, i + 1,
                              Append(tracks, [file |-> i, url |-> metadata.url]),
                              metadata.live)

ProcessAudioFiles(files, k, live) == ProcessFrom(files, k, 1, <<>>, live)

\* State of FileUpload.  uploadedFiles: the rows of the list, each with the
\* upload it came from; successOf: the upload that set success, 0 while it is
\* false; uploads: the uploads started so far; inFlight: the valid files of
\* the upload being processed; timers: the uploads whose 3-second timer is
\* pending; tracks: the tracks last handed to onFilesUploaded; liveUrls: the
\* object URLs not revoked.  op, fired, preOwner, preSuccessOf record the
\* last step: the timer that fired, the upload that owned the list and the
\* one that owned the success flag when it fired.
UplInit ==
    [uploadedFiles |-> <<>>, success |-> FALSE, successOf |-> 0,
     isProcessing |-> FALSE, error |-> FALSE,
     uploads |-> 0, inFlight |-> <<>>, timers |-> {},
     tracks |-> <<>>, liveUrls |-> {},
     op |-> "none", fired |-> 0, preOwner |-> 0, preSuccessOf |-> 0]

\* the upload the rows of the list came from, 0 for an empty list
OwnerOf(uploadedFiles) ==
    IF Len(uploadedFiles) = 0 THEN 0 ELSE uploadedFiles[1].upload

\* setUploadedFiles(prev => prev.map(file => ({...file, status})))
WithStatus(uploadedFiles, status) ==
    [i \in 1..Len(uploadedFiles) |-> [uploadedFiles[i] EXCEPT !.status = status]]

\* handleFiles(files) up to its await
HandleFiles(u, files) ==
    LET validFiles == SelectSeq(files, LAMBDA f : f.valid)
        u0 == [u EXCEPT !.error = FALSE, !.success = FALSE, !.successOf = 0,
                        !.op = "handleFiles"]
    IN  IF Len(files) = 0 THEN u0
        ELSE LET u1 == [u0 EXCEPT !.error = (Len(validFiles) < Len(files))]
             IN  IF Len(validFiles) = 0 THEN u1
                 ELSE [u1 EXCEPT
                         !.isProcessing = TRUE,
                         !.uploads = @ + 1,
                         !.inFlight = validFiles,
                         !.uploadedFiles =
                             [i \in 1..Len(validFiles) |->
                                 [upload |-> u.uploads + 1, status |-> "processing"]]]

\* handleFiles after its await: sinkThrows is whether onFilesUploaded throws
HandleFilesProcessed(u, sinkThrows) ==
    LET p == ProcessAudioFiles(u.inFlight, u.uploads, u.liveUrls)
        u1 == [u EXCEPT !.uploadedFiles = WithStatus(@, "completed"),
                        !.success = TRUE, !.successOf = u.uploads,
                        !.tracks = p.tracks, !.liveUrls = p.live,
                        !.isProcessing = FALSE, !.inFlight = <<>>,
                        !.op = "processed"]
    IN  IF sinkThrows
        THEN [u1 EXCEPT !.error = TRUE, !.uploadedFiles = WithStatus(@, "error")]
        ELSE [u1 EXCEPT !.timers = @ \cup {u.uploads}]

\* the callback of setTimeout(..., 3000) of upload k
ClearTimer(u, k) ==
    [u EXCEPT !.success = FALSE, !.successOf = 0, !.uploadedFiles = <<>>,
              !.timers = @ \ {k},
              !.op = "timer", !.fired = k,
              !.preOwner = OwnerOf(u.uploadedFiles),
              !.preSuccessOf = u.successOf]

\* removeFile(index)
RemoveFile(u, index) ==
    [u EXCEPT !.uploadedFiles =
                  [i \in 1..(Len(@) - 1) |-> IF i <= index THEN @[i] ELSE @[i + 1]],
              !.success = IF Len(u.uploadedFiles) = 1 THEN FALSE ELSE @,
              !.successOf = IF Len(u.uploadedFiles) = 1 THEN 0 ELSE @,
              !.op = "removeFile"]

\* clearAll
ClearAll(u) ==
    [u EXCEPT !.uploadedFiles = <<>>, !.error = FALSE,
              !.success = FALSE, !.successOf = 0, !.op = "clearAll"]

\* a drop or a choice in the file input; the drop zone takes no pointer
\* events and the button is disabled while isProcessing
UplHandleFiles ==
    /\ unit = "FileUpload"
    /\ ~upl.isProcessing
    /\ upl.uploads < MaxUploads
    /\ \E files \in FileLists : upl' = HandleFiles(upl, files)
    /\ UNCHANGED <<unit, ap, app, hk, viz, smp, lib, last>>

\* processAudioFiles has resolved
UplProcessed ==
    /\ unit = "FileUpload"
    /\ upl.isProcessing
    /\ \E sinkThrows \in BOOLEAN : upl' = HandleFilesProcessed(upl, sinkThrows)
    /\ UNCHANGED <<unit, ap, app, hk, viz, smp, lib, last>>

\* the oldest pending timer fires
UplTimer ==
    /\ unit = "FileUpload"
    /\ \E k \in upl.timers :
         /\ \A j \in upl.timers : k <= j
         /\ upl' = ClearTimer(upl, k)
    /\ UNCHANGED <<unit, ap, app, hk, viz, smp, lib, last>>

UplRemoveFile ==
    /\ unit = "FileUpload"
    /\ \E index \in 0..(Len(upl.uploadedFiles) - 1) : upl' = RemoveFile(upl, index)
    /\ UNCHANGED <<unit, ap, app, hk, viz, smp, lib, last>>

UplClearAll ==
    /\ unit = "FileUpload"
    /\ Len(upl.uploadedFiles) > 0
    /\ upl' = ClearAll(upl)
    /\ UNCHANGED <<unit, ap, app, hk, viz, smp, lib, last>>

----------------------------------------------------------------------------
(* Specifications *)

Init ==
    /\ unit \in Units
    /\ \E sink \in BOOLEAN : ap = [ApInit EXCEPT !.onTrackChange = sink]
    /\ unit # "AudioPlayer" => ap = ApInit
    /\ app = AppInit
    /\ hk = HkInit
    /\ \E c \in LoopComponents : viz = VizInit(c)
    /\ unit # "renderLoop" => viz = VizInit("AudioPlayer")
    /\ \E data \in Samples : smp = SmpInit(data)
    /\ unit # "sample" => smp = SmpInit(<<>>)
    /\ lib = LibInit
    /\ upl = UplInit
    /\ last = NoObs

\* playback and playlist traversal of AudioPlayer and App
NextTraversal ==
    \/ ApNextClick
    \/ ApPreviousClick
    \/ ApEnded
    \/ ApTick
    \/ ApTogglePlay
    \/ ApToggleShuffle
    \/ ApCycleRepeat
    \/ ApParentSetPlaylist
    \/ ApParentSelectTrack
    \/ AppFileLoaded
    \/ AppTrackClick
    \/ AppToggleClick
    \/ AppSkipClick
    \/ AppEnded
    \/ AppTick
    \/ AppToggleShuffle
    \/ AppCycleRepeat
    \/ AppRemoveTrack

SpecTraversal == Init /\ [][NextTraversal]_vars

\* volume and mute of AudioPlayer, App and useAudioContext
NextVolume ==
    \/ ApHandleVolumeChange
    \/ ApToggleMute
    \/ ApParentSelectTrack
    \/ AppHandleVolumeChange
    \/ HkInitializeContext
    \/ HkSetVolume
    \/ HkGetVolume

SpecVolume == Init /\ [][NextVolume]_vars

\* elapsed time and duration of AudioPlayer and App
NextTime ==
    \/ ApParentSelectTrack
    \/ ApTogglePlay
    \/ ApTick
    \/ ApEnded
    \/ ApTimeUpdate
    \/ ApLoadedMetadata
    \/ ApHandleSeek
    \/ AppFileLoaded
    \/ AppTrackClick
    \/ AppToggleClick
    \/ AppTick
    \/ AppEnded
    \/ AppTimeUpdate
    \/ AppLoadedMetadata
    \/ AppHandleSeek

SpecTime == Init /\ [][NextTime]_vars

\* the render loops
NextLoop ==
    \/ LoopApTrack
    \/ LoopApPlaying
    \/ LoopApFrame
    \/ LoopAppPlaying
    \/ LoopAppFrame
    \/ LoopVisElement
    \/ LoopVisPlaying
    \/ LoopVisType
    \/ LoopVisFrame
    \/ LoopApUnmount
    \/ LoopAppUnmount
    \/ LoopVisUnmount

SpecLoop == Init /\ [][NextLoop]_vars

\* the analyser graphs: the ones the components build and the hook
NextGraph ==
    \/ NextLoop
    \/ HkInitializeContext
    \/ HkConnectAudioElement
    \/ HkCloseContext

SpecGraph == Init /\ [][NextGraph]_vars

\* the functions over samples
NextSample ==
    \/ SmpGetFrequencyData
    \/ SmpGetFrequencyBins

SpecSample == Init /\ [][NextSample]_vars

\* the library in localStorage and the track list of App
NextLibrary ==
    \/ LibSaveTracks
    \/ LibUpdateTrack
    \/ LibDeleteTrack
    \/ LibClearAllTracks
    \/ AppFileLoaded
    \/ AppRemoveTrack
    \/ AppReload

SpecLibrary == Init /\ [][NextLibrary]_vars

\* FileUpload
NextUpload ==
    \/ UplHandleFiles
    \/ UplProcessed
    \/ UplTimer
    \/ UplRemoveFile
    \/ UplClearAll

SpecUpload == Init /\ [][NextUpload]_vars

Next == NextTraversal \/ NextVolume \/ NextTime \/ NextLoop \/ NextGraph
            \/ NextSample \/ NextLibrary \/ NextUpload

Spec == Init /\ [][Next]_vars

----------------------------------------------------------------------------
(* The unit the last handler ran in, as that handler left it *)

ByApp == last.who = "App"
PlaylistNow == IF ByApp THEN app.tracks ELSE ap.playlist
TrackNow == IF ByApp THEN app.currentTrack ELSE ap.currentTrack
PlayingNow == IF ByApp THEN app.isPlaying ELSE ap.isPlaying
PausedNow == IF ByApp THEN app.audioPaused ELSE ap.audioPaused
TimeNow == IF ByApp THEN app.audioTime ELSE ap.audioTime
ShuffleNow == IF ByApp THEN app.isShuffling ELSE ap.isShuffled
RepeatNow == IF ByApp THEN (IF app.repeatMode = "none" THEN "off" ELSE app.repeatMode)
             ELSE ap.repeatMode
SinkNow == ByApp \/ ap.onTrackChange
ByPlayer == last.who \in {"AudioPlayer", "App"}

----------------------------------------------------------------------------
(* Claims *)

\* C1: with shuffle off and repeat off, a manual next on a playlist of
\* length N >= 2 at index i selects the track at index (i+1) mod N, for every
\* i in 0..N-1, the last index included.
C1_ManualNextWraps ==
    (/\ ByPlayer /\ last.op = "next"
     /\ last.an >= 2 /\ last.aidx >= 0
     /\ ~ShuffleNow /\ RepeatNow = "off" /\ SinkNow)
    => last.issued = At(PlaylistNow, (last.aidx + 1) % last.an)

\* C2: when repeat mode is 'one' at the moment 'ended' fires, the current
\* track is not changed, the elapsed time is reset to 0 and playback is
\* restarted, for every shuffle setting and playlist position.
C2_RepeatOneRestarts ==
    (/\ ByPlayer /\ last.op = "ended"
     /\ RepeatNow = "one" /\ last.an >= 1 /\ SinkNow)
    => /\ last.issued = NoTrack
       /\ TrackNow = last.preTrack
       /\ last.play # "none"
       /\ last.play = "ok" => (TimeNow = 0 /\ ~PausedNow)

\* C3: with repeat off and shuffle off, when the track at the last index
\* ends, playback stops and the current track stays the last track: no track
\* change is issued and there is no wraparound, for every N >= 1.
C3_EndOfPlaylistStops ==
    (/\ ByPlayer /\ last.op = "ended"
     /\ RepeatNow = "off" /\ ~ShuffleNow /\ SinkNow
     /\ last.an >= 1 /\ last.aidx = last.an - 1)
    => /\ ~PlayingNow
       /\ last.issued = NoTrack
       /\ TrackNow = last.preTrack

\* C4: with repeat 'all' and shuffle off, when the track at the last index
\* ends, the current track becomes the track at index 0 and isPlaying is true
\* afterwards, for every N >= 1.
C4_RepeatAllWraps ==
    (/\ ByPlayer /\ last.op = "ended"
     /\ RepeatNow = "all" /\ ~ShuffleNow /\ SinkNow
     /\ last.an >= 1 /\ last.aidx = last.an - 1)
    => /\ TrackNow = At(PlaylistNow, 0)
       /\ PlayingNow

\* C5: with shuffle on and repeat not 'one', trackEnded always issues a track
\* change to some index of the playlist and never stops playback, whatever
\* the current index is.
C5_ShuffleEndedAdvances ==
    (/\ ByPlayer /\ last.op = "ended"
     /\ ShuffleNow /\ RepeatNow # "one" /\ SinkNow /\ last.an >= 1)
    => /\ \E i \in 0..(last.an - 1) : last.issued = At(PlaylistNow, i)
       /\ PlayingNow = last.prePlaying

\* C6: a manual previous on a non-empty playlist selects index
\* currentIndex-1 when currentIndex > 0 and the last index when currentIndex
\* is 0 or the current track is not found, whatever repeat and shuffle are.
C6_PreviousIndex ==
    (/\ ByPlayer /\ last.op = "prev" /\ last.an >= 1 /\ SinkNow)
    => last.issued = At(PlaylistNow, IF last.aidx > 0 THEN last.aidx - 1
                                     ELSE last.an - 1)

\* a previous was requested while the current track is not in the playlist,
\* with shuffle on and repeat 'one', and the last track was selected
C6_Witness ==
    /\ last.who = "AudioPlayer" /\ last.op = "prev"
    /\ last.an >= 2 /\ last.aidx = -1 /\ last.preTrack # NoTrack
    /\ ap.isShuffled /\ ap.repeatMode = "one"
    /\ ap.currentTrack = At(ap.playlist, last.an - 1)

C8_RejectedPlayStaysPaused ==
    (ByPlayer /\ last.op = "toggle" /\ last.play = "rejected")
    => (~PlayingNow /\ ~last.threw)

\* C9: the stored volume and the level applied to the transport or the gain
\* node are within [0,1] (0..100 percent; App stores its volume on the
\* slider's 0..100 scale) after any sequence of volume changes.
C9_VolumeInRange ==
    /\ ap.volume \in 0..100
    /\ app.volume \in 0..100
    /\ ap.audioVolume \in 0..100
    /\ app.audioVolume \in 0..100
    /\ hk.gainValue \in 0..100

\* an out-of-range request above 1 was stored and applied as 1
C9_Witness ==
    /\ last.who = "AudioPlayer" /\ last.op = "volume" /\ last.req > 100
    /\ ap.currentTrack # NoTrack
    /\ ap.volume = 100 /\ ap.audioVolume = 100

\* C10: setting the volume, to any value, leaves the mute flag unchanged.
C10_VolumeKeepsMute ==
    (last.who = "AudioPlayer" /\ last.op = "volume")
    => ap.isMuted = last.preMuted

\* C11: whenever the duration is known, 0 <= currentTime <= duration, after
\* seeks and across a track change followed by loadedmetadata / timeupdate.
C11_TimeWithinDuration ==
    /\ ap.duration > 0 => (0 <= ap.currentTime /\ ap.currentTime <= ap.duration)
    /\ app.duration > 0 => (0 <= app.currentTime /\ app.currentTime <= app.duration)

\* C12: a frame callback is pending only while isPlaying and the graph is
\* ready, and a start of playback with the graph ready leaves the loop running.
C12_LoopRunsWhenPlayingAndReady ==
    /\ viz.frame => (viz.isPlaying /\ GraphReady(viz))
    /\ (viz.op = "play" /\ viz.preReady) => viz.frame

\* C13: a start of playback without a ready graph leaves the loop idle, and
\* the step in which the graph becomes ready while isPlaying stays true
\* leaves the loop running.
C13_LoopStartsWhenGraphReady ==
    /\ (viz.op = "play" /\ ~GraphReady(viz)) => ~viz.frame
    /\ (viz.prePlaying /\ viz.isPlaying /\ ~viz.preReady /\ GraphReady(viz))
         => viz.frame

C15_DrawErrorsContained ==
    /\ ~viz.threw
    /\ (viz.op = "frame" /\ viz.isPlaying /\ GraphReady(viz)) => viz.frame

\* C16: initializeContext on a hook without a graph, with the audio engine
\* available, returns the context and leaves the analyser and the gain node
\* in place and isContextReady true.
C16_EnsureGraphBuilds ==
    (last.op = "initializeContext" /\ hk.engine /\ hk.pre[1] = "null")
        => /\ hk.ret = "context"
           /\ hk.audioContext = "open" /\ hk.analyser /\ hk.gainNode
           /\ hk.isContextReady

\* C17: a step of a component whose graph exists, its graph construction run
\* again or not, makes no context, analyser or source and leaves the graph as
\* it was.
C17_EnsureGraphIdempotent ==
    viz.preGraph[1] => GraphOf(viz) = viz.preGraph

C17_Witness ==
    /\ viz.op \in {"track", "element", "play"}
    /\ viz.preGraph[1] /\ viz.preGraph[4]
    /\ GraphOf(viz) = viz.preGraph

\* C18: connectAudioElement with an element, after closeContext, returns no
\* source, records an error and constructs neither a context nor a source.
C18_RebindAfterCloseFails ==
    (last.op = "connectAudioElement" /\ hk.element /\ hk.preClosed)
        => /\ hk.ret = "null"
           /\ hk.error
           /\ hk.contexts = hk.pre[7]
           /\ hk.sources = hk.pre[8]

\* C20: after closeContext the context, analyser, gain node and source are
\* released and isContextReady is false; no exception leaves the call, the
\* context was closed at most once, and a call on a hook already closed
\* changes nothing.
C20_CloseTerminalIdempotent ==
    last.op = "closeContext"
        => /\ hk.audioContext = "null" /\ ~hk.analyser /\ ~hk.gainNode
           /\ ~hk.source /\ ~hk.isContextReady
           /\ ~hk.threw
           /\ hk.closes <= 1
           /\ hk.preClosed => HkState(hk) = hk.pre

C20_Witness ==
    /\ last.op = "closeContext" /\ hk.preClosed /\ ~hk.threw
    /\ hk.audioContext = "null" /\ HkState(hk) = hk.pre

\* C21: initializeContext on a hook that closeContext has closed, with the
\* audio engine available, gives a ready graph again: a context, an analyser
\* and a gain node, and isContextReady true.
C21_CloseThenEnsureGraphRecovers ==
    (last.op = "initializeContext" /\ hk.engine /\ hk.preClosed)
        => /\ hk.ret = "context"
           /\ hk.audioContext = "open" /\ hk.analyser /\ hk.gainNode
           /\ hk.isContextReady /\ ~hk.error

\* C22: no exception leaves the graph construction of a component or a call
\* of the hook, a failed call of the hook leaves it not ready, and while no
\* source node is bound to the element a play or pause request is carried out.
C22_GraphFailureNeverBlocksPlayback ==
    /\ viz.op \in {"track", "element"} => ~viz.threw
    /\ last.op \in {"initializeContext", "connectAudioElement"}
         => (~hk.threw /\ (hk.ret = "null" /\ hk.error => ~hk.isContextReady))
    /\ ~viz.source => viz.op # "blocked"

\* C23: getFrequencyData without an analyser returns a buffer of the
\* configured bin count whose entries are all 0.
C23_SampleWithoutGraphIsZeroFilled ==
    (smp.op = "getFrequencyData" /\ ~smp.analyzer)
        => smp.out = [i \in 1..FrequencyBinCount |-> 0]

\* a band value that is a defined number in [0, 1]
InUnitInterval(band) ==
    /\ band # "NaN"
    /\ 0 <= band[1] /\ band[1] <= band[2]

C24_DisposeReleasesGraph ==
    /\ viz.op = "unmount"
         => (~viz.frame /\ (viz.audioContext => viz.contextClosed))
    /\ last.op = "closeContext" => hk.audioContext = "null"

\* no id occurs twice in the list
NoDuplicateIds(tracks) ==
    \A i, j \in 1..Len(tracks) : tracks[i] = tracks[j] => i = j

\* C25: neither the stored library nor the track list of App ever holds two
\* tracks with the same id.
C25_NoDuplicateIds ==
    /\ NoDuplicateIds(lib.tracks)
    /\ NoDuplicateIds(app.tracks)

\* a manual next or previous by a handler that can select a track, while the
\* current track is not in the non-empty playlist
SkipWithTrackNotFound ==
    /\ ByPlayer /\ last.op \in {"next", "prev"}
    /\ last.aidx = -1 /\ last.an >= 1 /\ SinkNow

\* C26: when the current track is not in the non-empty playlist, a next and
\* a previous request both select the track at index 0.
C26_NotFoundSelectsFirst ==
    SkipWithTrackNotFound => last.issued = At(PlaylistNow, 0)

\* C26 as amended: a previous request selects the last index; a next request
\* selects index 0, in AudioPlayer when repeat is not 'one' and shuffle is off.
C26_NotFoundSelectsFirstOrLast ==
    SkipWithTrackNotFound
        => IF last.op = "prev"
           THEN last.issued = At(PlaylistNow, last.an - 1)
           ELSE (ByApp \/ (ap.repeatMode # "one" /\ ~ap.isShuffled))
                    => last.issued = At(PlaylistNow, 0)

C26_Witness ==
    /\ last.who = "AudioPlayer" /\ last.op = "next"
    /\ last.aidx = -1 /\ last.an >= 2 /\ last.preTrack # NoTrack
    /\ ap.onTrackChange /\ ap.repeatMode = "all" /\ ~ap.isShuffled
    /\ ap.currentTrack = At(ap.playlist, 0)

\* C27: the current track of App is null or one of the tracks of the list.
C27_CurrentTrackInTracks ==
    app.currentTrack # NoTrack => FindIndex(app.tracks, app.currentTrack) >= 0

\* the current track was removed while it played: the element still holds
\* its source, other tracks remain in the list
C27_Witness ==
    /\ unit = "App"
    /\ app.currentTrack = NoTrack /\ app.audioSrc # NoTrack
    /\ FindIndex(app.tracks, app.audioSrc) = -1
    /\ Len(app.tracks) >= 1

\* C30: in AudioPlayer and in App the isPlaying flag is true exactly when
\* the audio element is not paused.
C30_FlagMatchesElement ==
    /\ unit = "AudioPlayer" => (ap.isPlaying <=> ~ap.audioPaused)
    /\ unit = "App" => (app.isPlaying <=> ~app.audioPaused)

\* C28: no component creates more than one source node for its audio
\* element, however often its graph effect runs, and the hook creates at
\* most one source node for the element it is given.
C28_AtMostOneSourcePerElement ==
    /\ viz.sources <= 1
    /\ hk.created <= 1

\* the graph effect of Visualizer ran a second time before the initialised
\* flag was set, the first run having failed, and created the source
C28_Witness ==
    /\ viz.comp = "Visualizer" /\ viz.op = "element"
    /\ ~viz.preGraph[4] /\ viz.preGraph[5] >= 1
    /\ viz.isInitialized /\ viz.sources = 1

\* C31: when 'ended' fires in AudioPlayer, its handler works on the playlist
\* of that moment, and with repeat 'one' in effect at that moment it
\* restarts the current track instead of selecting another one.
C31_EndedUsesCurrentSettings ==
    (last.who = "AudioPlayer" /\ last.op = "ended")
        => /\ last.n = last.an /\ last.idx = last.aidx
           /\ (ap.repeatMode = "one" /\ last.an >= 1 /\ ap.onTrackChange)
                  => (last.issued = NoTrack /\ last.play # "none")

\* C34: getVolume called after setVolume(v) returns v clamped to the range
\* of the gain, for every requested v.
C34_GetVolumeReturnsApplied ==
    (last.who = "useAudioContext" /\ last.op = "getVolume")
        => last.got = HkClampVolume(last.req)

\* C35: the list stored under 'mp3-player-tracks' equals the track list of
\* App after every add and every remove, so a reload shows the same tracks.
C35_StoredEqualsTracks ==
    app.stored = app.tracks

\* C36: every track handed over by processAudioFiles has a url that is null
\* or an object URL that has not been revoked.
C36_TrackUrlsUsable ==
    \A i \in 1..Len(upl.tracks) :
        upl.tracks[i].url = NullUrl \/ upl.tracks[i].url \in upl.liveUrls

\* C37: the timer of an upload clears only the file list and the success
\* flag of that upload.
C37_TimerClearsOwnUpload ==
    upl.op = "timer"
        => /\ upl.preOwner \in {0, upl.fired}
           /\ upl.preSuccessOf \in {0, upl.fired}

====
